---- MODULE Spec2Model ----
(***************************************************************************)
(* State-machine model of src/src/script.js: a three.js scene viewer.      *)
(* One action per event handler the script installs (resize listener,      *)
(* glTF load callback, the three lil-gui onChange handlers, the frame      *)
(* callback tick), plus the host events that drive them.                   *)
(*                                                                         *)
(* Real numbers are fixed-point integers in thousandths (One = 1.0), the   *)
(* step of every slider of the panel.  Time is in milliseconds, so a       *)
(* clock delta in seconds is the same integer in thousandths.              *)
(***************************************************************************)
EXTENDS Integers, Sequences, FiniteSets, TLC

VARIABLES
  started,      \* the script has run to its last line (tick() at line 209)
  window,       \* host: innerWidth, innerHeight, devicePixelRatio
  sizes,        \* const sizes = { width, height }
  camera,       \* PerspectiveCamera: aspect and the aspect baked in its projection matrix
  renderer,     \* WebGLRenderer: size, pixel ratio, tone mapping, exposure, info.render.frame
  debugObject,  \* toneMapping, toneMappingExposure, envMapIntensity
  scene,        \* scene.children, by name, in insertion order
  fox,          \* <<>> until the model has loaded, then <<gltf.scene>>
  mixer,        \* <<>> while `let mixer` is undefined, then <<AnimationMixer>>
  clock,        \* THREE.Clock: running, oldTime
  now,          \* host: performance.now()
  load,         \* host: the glTF request, "pending" | "loaded" | "failed"
  gltf,         \* host: <<>> until the request succeeds, then <<the asset delivered>>
  rafPending,   \* host: frame callbacks requested and not yet run
  calls         \* the calls made by the handler that ran last, handler name first

vars == <<started, window, sizes, camera, renderer, debugObject, scene, fox,
          mixer, clock, now, load, gltf, rafPending, calls>>

(***************************************************************************)
(* Bounds of the model                                                     *)
(***************************************************************************)
MaxNow == 2        \* the host clock stops advancing here
FrameWrap == 2     \* renderer.info.render.frame is kept modulo this
MaxMeshes == 2     \* children of an arbitrary scene fragment (SpecMat)

(***************************************************************************)
(* Program constants                                                       *)
(***************************************************************************)
One == 1000
NoToneMapping == 0
LinearToneMapping == 1
ReinhardToneMapping == 2
CineonToneMapping == 3
ACESFilmicToneMapping == 4
MaxPixelRatio == 2

ToneMappings == {NoToneMapping, LinearToneMapping, ReinhardToneMapping,
                 CineonToneMapping, ACESFilmicToneMapping}

Half == One \div 2                      \* fox.scale.set(0.5, 0.5, 0.5)
InitialExposure == 3 * One              \* debugObject.toneMappingExposure = 3
InitialEnvMapIntensity == 2500          \* debugObject.envMapIntensity = 2.5

(***************************************************************************)
(* Inputs the host and the user can supply                                 *)
(***************************************************************************)
WindowWidths == {800, 1200}
WindowHeights == {600}
DevicePixelRatios == {1, 3}
ExposureValues == {0, InitialExposure}               \* slider domain 0..10
EnvMapIntensityValues == {InitialEnvMapIntensity, 10 * One}   \* slider domain 0..10

(***************************************************************************)
(* Helpers                                                                 *)
(***************************************************************************)
Min(a, b) == IF a < b THEN a ELSE b

SetMin(S) == CHOOSE x \in S : \A y \in S : x <= y
SetMax(S) == CHOOSE x \in S : \A y \in S : x >= y

Count(s, x) == Cardinality({i \in DOMAIN s : s[i] = x})

InScene(sc, name) == \E i \in DOMAIN sc : sc[i] = name

RECURSIVE GCD(_, _)
GCD(a, b) == IF b = 0 THEN a ELSE GCD(b, a % b)

\* a / b of two positive integers, as the exact fraction in lowest terms
Divide(a, b) == <<a \div GCD(a, b), b \div GCD(a, b)>>

(***************************************************************************)
(* Scene objects                                                           *)
(***************************************************************************)
\* A node of a loaded model as the loader delivers it: no environment map,
\* intensity 1, no shadows.  minY/maxY is the extent of its geometry.
Node(type, material, minY, maxY) ==
  [type |-> type, material |-> material, envMap |-> "null",
   envMapIntensity |-> One, castShadow |-> FALSE, receiveShadow |-> FALSE,
   minY |-> minY, maxY |-> maxY]

Object3D(children) ==
  [position_y |-> 0, scale |-> <<One, One, One>>, children |-> children]

\* The models the loader may deliver: gltf.scene and gltf.animations.
GltfModels ==
  { [scene |-> Object3D(<<Node("Mesh", "MeshStandardMaterial", -1000, 1000)>>),
     animations |-> {}],
    [scene |-> Object3D(<<Node("Mesh", "MeshStandardMaterial", 0, 2000)>>),
     animations |-> {"Survey"}],
    [scene |-> Object3D(<<Node("Bone", "none", 0, 0),
                          Node("Mesh", "MeshStandardMaterial", -2000, 0),
                          Node("Mesh", "MeshBasicMaterial", 0, 2000)>>),
     animations |-> {"Survey", "Walk"}],
    [scene |-> Object3D(<<Node("Mesh", "MeshBasicMaterial", -1000, 1000)>>),
     animations |-> {}] }

\* world y of the local coordinate y of a child of o
WorldY(o, y) == o.position_y + (o.scale[2] * y) \div One

\* new THREE.Box3().setFromObject(o): the y extent of the geometry under o
setFromObject(o) ==
  LET meshes == {i \in DOMAIN o.children : o.children[i].type = "Mesh"}
  IN [min_y |-> SetMin({WorldY(o, o.children[i].minY) : i \in meshes}),
      max_y |-> SetMax({WorldY(o, o.children[i].maxY) : i \in meshes})]

(***************************************************************************)
(* updateAllMaterials                                                      *)
(***************************************************************************)
\* Mutant of updateMaterial: the intensity is added to the material's, not assigned.
updateMaterial_accumulate(child, intensity) ==
  IF child.type = "Mesh" /\ child.material = "MeshStandardMaterial"
  THEN [child EXCEPT !.envMap = "environmentMap",
                     !.envMapIntensity = @ + intensity,
                     !.castShadow = TRUE,
                     !.receiveShadow = TRUE]
  ELSE child

\* the body of the traverse callback, on one node
updateMaterial(child, intensity) ==
  IF child.type = "Mesh" /\ child.material = "MeshStandardMaterial"
  THEN [child EXCEPT !.envMap = "environmentMap",
                     !.envMapIntensity = intensity,
                     !.castShadow = TRUE,
                     !.receiveShadow = TRUE]
  ELSE child

\* scene.traverse(...): visits the nodes attached to the scene.  The camera
\* and the light are no meshes; the model's nodes are visited when the model
\* is attached.  Returns the model after the pass.
updateAllMaterials(sc, f, intensity) ==
  IF f # <<>> /\ InScene(sc, "fox")
  THEN <<[f[1] EXCEPT !.children =
             [i \in DOMAIN f[1].children |-> updateMaterial(f[1].children[i], intensity)]]>>
  ELSE f

(***************************************************************************)
(* Camera, renderer, clock, mixer                                          *)
(***************************************************************************)
\* new THREE.PerspectiveCamera(75, aspect, 0.1, 100): the constructor
\* computes the projection matrix
PerspectiveCamera(aspect) == [aspect |-> aspect, projectionAspect |-> aspect]

updateProjectionMatrix(c) == [c EXCEPT !.projectionAspect = c.aspect]

\* new THREE.WebGLRenderer({canvas, antialias}): the script sets neither
\* toneMapping nor toneMappingExposure, so they keep the library's defaults
\* (NoToneMapping, 1.0); a canvas is 300 x 150 until sized.
WebGLRenderer ==
  [width |-> 300, height |-> 150, pixelRatio |-> 1,
   toneMapping |-> NoToneMapping, toneMappingExposure |-> One, frame |-> 0]

setSize(r, w, h) == [r EXCEPT !.width = w, !.height = h]
setPixelRatio(r, v) == [r EXCEPT !.pixelRatio = v]

\* renderer.render(scene, camera) draws one frame
render(r) == [r EXCEPT !.frame = (@ + 1) % FrameWrap]

\* clock.getDelta(): the first call starts the clock and measures 0
getDelta(c, t) == IF c.running THEN t - c.oldTime ELSE 0

\* new THREE.AnimationMixer(fox) and clipAction(clip).play() for every clip
AnimationMixer(clips) == [root |-> "fox", time |-> 0, playing |-> clips]

mixerUpdate(m, delta) == [m EXCEPT !.time = @ + delta]

(***************************************************************************)
(* Init: the state when the script has run up to, not including, tick()    *)
(***************************************************************************)
Init ==
  /\ started = FALSE
  /\ window \in [innerWidth : WindowWidths, innerHeight : WindowHeights,
                 devicePixelRatio : DevicePixelRatios]
  /\ sizes = [width |-> window.innerWidth, height |-> window.innerHeight]
  /\ camera = PerspectiveCamera(Divide(sizes.width, sizes.height))
  /\ renderer = setPixelRatio(setSize(WebGLRenderer, sizes.width, sizes.height),
                              Min(window.devicePixelRatio, MaxPixelRatio))
  /\ debugObject = [toneMapping |-> ACESFilmicToneMapping,
                    toneMappingExposure |-> InitialExposure,
                    envMapIntensity |-> InitialEnvMapIntensity]
  /\ scene = <<"camera", "directionalLight">>
  /\ fox = <<>>
  /\ mixer = <<>>
  /\ clock = [running |-> FALSE, oldTime |-> 0]
  /\ now = 0
  /\ load = "pending"
  /\ gltf = <<>>
  /\ rafPending = 0
  /\ calls = <<"script">>

(***************************************************************************)
(* tick                                                                    *)
(***************************************************************************)
\* Mutant of tick: the loop waits for the model, returning while there is no mixer.
tick_waitsForMixer(pending) ==
  LET delta == getDelta(clock, now) IN
  /\ clock' = [running |-> TRUE, oldTime |-> now]
  /\ mixer' = IF mixer # <<>> THEN <<mixerUpdate(mixer[1], delta)>> ELSE mixer
  /\ renderer' = IF mixer # <<>> THEN render(renderer) ELSE renderer
  /\ rafPending' = IF mixer # <<>> THEN pending + 1 ELSE pending
  /\ calls' = IF mixer # <<>>
              THEN <<"tick", "mixer.update", "controls.update", "renderer.render",
                     "requestAnimationFrame">>
              ELSE <<"tick">>
  /\ UNCHANGED <<window, sizes, camera, debugObject, scene, fox, now, load, gltf>>

\* `pending` is the number of frame callbacks still queued while tick runs
tick(pending) ==
  LET delta == getDelta(clock, now) IN
  /\ clock' = [running |-> TRUE, oldTime |-> now]
  /\ mixer' = IF mixer # <<>> THEN <<mixerUpdate(mixer[1], delta)>> ELSE mixer
  /\ renderer' = render(renderer)
  /\ rafPending' = pending + 1
  /\ calls' = IF mixer # <<>>
              THEN <<"tick", "mixer.update", "controls.update", "renderer.render",
                     "requestAnimationFrame">>
              ELSE <<"tick", "controls.update", "renderer.render",
                     "requestAnimationFrame">>
  /\ UNCHANGED <<window, sizes, camera, debugObject, scene, fox, now, load, gltf>>

\* line 209: the script's last statement
Start ==
  /\ ~started
  /\ started' = TRUE
  /\ tick(rafPending)

\* the host runs a requested frame callback
AnimationFrame ==
  /\ started
  /\ rafPending > 0
  /\ UNCHANGED started
  /\ tick(rafPending - 1)

\* host time passes
AdvanceTime ==
  /\ now < MaxNow
  /\ now' = now + 1
  /\ UNCHANGED <<started, window, sizes, camera, renderer, debugObject, scene,
                 fox, mixer, clock, load, gltf, rafPending, calls>>

(***************************************************************************)
(* resize                                                                  *)
(***************************************************************************)
\* Mutant of resizeListener: renderer.setSize is left out.
resizeListener_noSetSize ==
  /\ sizes' = [width |-> window'.innerWidth, height |-> window'.innerHeight]
  /\ camera' = updateProjectionMatrix(
                 [camera EXCEPT !.aspect = Divide(sizes'.width, sizes'.height)])
  /\ renderer' = setPixelRatio(renderer, Min(window'.devicePixelRatio, MaxPixelRatio))
  /\ calls' = <<"resize", "camera.updateProjectionMatrix", "renderer.setPixelRatio">>
  /\ UNCHANGED <<started, debugObject, scene, fox, mixer, clock, now, load, gltf,
                 rafPending>>

\* Mutant of resizeListener: the listener also requests a frame.
resizeListener_requestsFrame ==
  /\ sizes' = [width |-> window'.innerWidth, height |-> window'.innerHeight]
  /\ camera' = updateProjectionMatrix(
                 [camera EXCEPT !.aspect = Divide(sizes'.width, sizes'.height)])
  /\ renderer' = setPixelRatio(setSize(renderer, sizes'.width, sizes'.height),
                               Min(window'.devicePixelRatio, MaxPixelRatio))
  /\ rafPending' = rafPending + 1
  /\ calls' = <<"resize", "camera.updateProjectionMatrix", "renderer.setSize",
                "renderer.setPixelRatio", "requestAnimationFrame">>
  /\ UNCHANGED <<started, debugObject, scene, fox, mixer, clock, now, load, gltf>>

\* the listener; the host has already changed the window (window')
resizeListener ==
  /\ sizes' = [width |-> window'.innerWidth, height |-> window'.innerHeight]
  /\ camera' = updateProjectionMatrix(
                 [camera EXCEPT !.aspect = Divide(sizes'.width, sizes'.height)])
  /\ renderer' = setPixelRatio(setSize(renderer, sizes'.width, sizes'.height),
                               Min(window'.devicePixelRatio, MaxPixelRatio))
  /\ calls' = <<"resize", "camera.updateProjectionMatrix", "renderer.setSize",
                "renderer.setPixelRatio">>
  /\ UNCHANGED <<started, debugObject, scene, fox, mixer, clock, now, load, gltf,
                 rafPending>>

\* The host changes the window and dispatches 'resize' before it runs the
\* frame callbacks of the same frame, so no tick falls between the two.
Resize ==
  /\ started
  /\ \E w \in WindowWidths, h \in WindowHeights, d \in DevicePixelRatios :
       /\ window' = [innerWidth |-> w, innerHeight |-> h, devicePixelRatio |-> d]
       /\ window' # window
       /\ resizeListener

(***************************************************************************)
(* model load                                                              *)
(***************************************************************************)
\* Mutant of onLoad: the mixer is created but no clip is played.
onLoad_noPlay(asset) ==
  LET box == setFromObject(asset.scene)
      height == box.max_y - box.min_y
      placed == [asset.scene EXCEPT !.position_y = (0 - height) \div 2,
                                   !.scale = <<Half, Half, Half>>]
  IN /\ scene' = Append(scene, "fox")
     /\ fox' = updateAllMaterials(scene', <<placed>>, debugObject.envMapIntensity)
     /\ mixer' = <<AnimationMixer({})>>
     /\ calls' = <<"onLoad", "scene.add", "updateAllMaterials">>
     /\ UNCHANGED <<started, window, sizes, camera, renderer, debugObject, clock,
                    now, rafPending>>

\* the success callback of gltfLoader.load
onLoad(asset) ==
  LET box == setFromObject(asset.scene)
      height == box.max_y - box.min_y
      placed == [asset.scene EXCEPT !.position_y = (0 - height) \div 2,
                                  !.scale = <<Half, Half, Half>>]
  IN /\ scene' = Append(scene, "fox")
     /\ fox' = updateAllMaterials(scene', <<placed>>, debugObject.envMapIntensity)
     /\ mixer' = <<AnimationMixer(asset.animations)>>
     /\ calls' = <<"onLoad", "scene.add", "updateAllMaterials">>
     /\ UNCHANGED <<started, window, sizes, camera, renderer, debugObject, clock,
                    now, rafPending>>

ModelLoaded ==
  /\ started
  /\ load = "pending"
  /\ load' = "loaded"
  /\ \E asset \in GltfModels :
       /\ gltf' = <<asset>>
       /\ onLoad(asset)

\* the request fails: no error callback is registered, nothing runs
ModelLoadFailed ==
  /\ started
  /\ load = "pending"
  /\ load' = "failed"
  /\ UNCHANGED <<started, window, sizes, camera, renderer, debugObject, scene,
                 fox, mixer, clock, now, gltf, rafPending, calls>>

(***************************************************************************)
(* debug panel                                                             *)
(***************************************************************************)
\* Mutant of toneMappingOnChange: the materials are not updated.
toneMappingOnChange_noUpdate(value) ==
  /\ renderer' = [renderer EXCEPT !.toneMapping = value]
  /\ calls' = <<"toneMapping.onChange">>
  /\ UNCHANGED <<started, window, sizes, camera, scene, fox, mixer, clock, now, load,
                 gltf, rafPending>>

\* the panel has already stored the value in debugObject (debugObject')
toneMappingOnChange(value) ==
  /\ renderer' = [renderer EXCEPT !.toneMapping = value]
  /\ fox' = updateAllMaterials(scene, fox, debugObject'.envMapIntensity)
  /\ calls' = <<"toneMapping.onChange", "updateAllMaterials">>
  /\ UNCHANGED <<started, window, sizes, camera, scene, mixer, clock, now, load,
                 gltf, rafPending>>

ToneMappingSelect ==
  /\ started
  /\ \E value \in ToneMappings :
       /\ value # debugObject.toneMapping
       /\ debugObject' = [debugObject EXCEPT !.toneMapping = value]
       /\ toneMappingOnChange(value)

exposureOnChange(value) ==
  /\ renderer' = [renderer EXCEPT !.toneMappingExposure = value]
  /\ fox' = updateAllMaterials(scene, fox, debugObject'.envMapIntensity)
  /\ calls' = <<"toneMappingExposure.onChange", "updateAllMaterials">>
  /\ UNCHANGED <<started, window, sizes, camera, scene, mixer, clock, now, load,
                 gltf, rafPending>>

ExposureChange ==
  /\ started
  /\ \E value \in ExposureValues :
       /\ value # debugObject.toneMappingExposure
       /\ debugObject' = [debugObject EXCEPT !.toneMappingExposure = value]
       /\ exposureOnChange(value)

\* Mutant of envMapIntensityOnChange: the materials are not updated.
envMapIntensityOnChange_noUpdate ==
  /\ calls' = <<"envMapIntensity.onChange">>
  /\ UNCHANGED <<started, window, sizes, camera, renderer, scene, fox, mixer, clock,
                 now, load, gltf, rafPending>>

envMapIntensityOnChange ==
  /\ fox' = updateAllMaterials(scene, fox, debugObject'.envMapIntensity)
  /\ calls' = <<"envMapIntensity.onChange", "updateAllMaterials">>
  /\ UNCHANGED <<started, window, sizes, camera, renderer, scene, mixer, clock,
                 now, load, gltf, rafPending>>

EnvMapIntensityChange ==
  /\ started
  /\ \E value \in EnvMapIntensityValues :
       /\ value # debugObject.envMapIntensity
       /\ debugObject' = [debugObject EXCEPT !.envMapIntensity = value]
       /\ envMapIntensityOnChange

(***************************************************************************)
(* Specifications                                                          *)
(***************************************************************************)
Next ==
  \/ Start
  \/ AnimationFrame
  \/ AdvanceTime
  \/ Resize
  \/ ModelLoaded
  \/ ModelLoadFailed
  \/ ToneMappingSelect
  \/ ExposureChange
  \/ EnvMapIntensityChange

Spec == Init /\ [][Next]_vars

\* The host runs the script to its end and runs every requested frame callback.
FairSpec == Spec /\ WF_vars(Start) /\ WF_vars(AnimationFrame)

(***************************************************************************)
(* A second specification for the Material Updater as a function of the    *)
(* scene graph: the model attached to the scene is arbitrary (any nodes,   *)
(* in any material state), and the panel handlers run the updater on it.   *)
(***************************************************************************)
ArbitraryNodes ==
  [type : {"Mesh"}, material : {"MeshStandardMaterial", "MeshBasicMaterial"},
   envMap : {"null", "environmentMap"}, envMapIntensity : {One, 10 * One},
   castShadow : BOOLEAN, receiveShadow : BOOLEAN, minY : {-1000}, maxY : {1000}]

ArbitraryChildren == UNION {[1..n -> ArbitraryNodes] : n \in 0..MaxMeshes}

InitMat ==
  /\ started = TRUE
  /\ window = [innerWidth |-> 800, innerHeight |-> 600, devicePixelRatio |-> 1]
  /\ sizes = [width |-> window.innerWidth, height |-> window.innerHeight]
  /\ camera = PerspectiveCamera(Divide(sizes.width, sizes.height))
  /\ renderer = render(setPixelRatio(setSize(WebGLRenderer, sizes.width, sizes.height),
                                     Min(window.devicePixelRatio, MaxPixelRatio)))
  /\ debugObject = [toneMapping |-> ACESFilmicToneMapping,
                    toneMappingExposure |-> InitialExposure,
                    envMapIntensity |-> InitialEnvMapIntensity]
  /\ \/ /\ fox = <<>>
        /\ scene = <<"camera", "directionalLight">>
        /\ load = "pending"
     \/ /\ fox \in {<<Object3D(ch)>> : ch \in ArbitraryChildren}
        /\ scene = <<"camera", "directionalLight", "fox">>
        /\ load = "loaded"
  /\ gltf = <<>>
  /\ mixer = <<>>
  /\ clock = [running |-> TRUE, oldTime |-> 0]
  /\ now = 0
  /\ rafPending = 1
  /\ calls = <<"tick", "controls.update", "renderer.render", "requestAnimationFrame">>

NextMat ==
  \/ ToneMappingSelect
  \/ ExposureChange
  \/ EnvMapIntensityChange

SpecMat == InitMat /\ [][NextMat]_vars

(***************************************************************************)
(* Properties                                                              *)
(***************************************************************************)
FrameRendered == renderer'.frame # renderer.frame

StandardMeshes(f) ==
  {i \in DOMAIN f.children :
     f.children[i].type = "Mesh" /\ f.children[i].material = "MeshStandardMaterial"}

\* C1: in every state (so after every resize listener run and at every
\* render) the camera's aspect, and the aspect in its projection matrix, is
\* the window's width / height, and the renderer's size is the window's size.
ResizeInvariant ==
  /\ sizes = [width |-> window.innerWidth, height |-> window.innerHeight]
  /\ camera.aspect = Divide(window.innerWidth, window.innerHeight)
  /\ camera.projectionAspect = camera.aspect
  /\ renderer.width = window.innerWidth
  /\ renderer.height = window.innerHeight

\* a resize to another aspect ratio has been handled
ResizeHandled ==
  /\ calls[1] = "resize"
  /\ window.innerWidth = 1200
  /\ renderer.frame = 0

\* C2: when the Tone Mapping handler has run for a selected operator, the
\* renderer's operator is the selected one, one of the five, and the handler
\* made exactly one updateAllMaterials call.
ToneMappingSwitch ==
  calls[1] = "toneMapping.onChange" =>
    /\ renderer.toneMapping = debugObject.toneMapping
    /\ renderer.toneMapping \in ToneMappings
    /\ Count(calls, "updateAllMaterials") = 1

ToneMappingSwitched ==
  /\ calls[1] = "toneMapping.onChange"
  /\ renderer.toneMapping = ReinhardToneMapping
  /\ fox # <<>>

\* C3: in every state, so at every render, every standard-material mesh
\* attached to the scene has the environment map, the panel's current
\* envMapIntensity, and casts and receives shadows.
MaterialsInSync ==
  (fox # <<>> /\ InScene(scene, "fox")) =>
    \A i \in StandardMeshes(fox[1]) :
      /\ fox[1].children[i].envMap = "environmentMap"
      /\ fox[1].children[i].envMapIntensity = debugObject.envMapIntensity
      /\ fox[1].children[i].castShadow
      /\ fox[1].children[i].receiveShadow

\* a frame rendered after the model loaded and the intensity was changed
SyncedFrameRendered ==
  /\ fox # <<>>
  /\ StandardMeshes(fox[1]) # {}
  /\ debugObject.envMapIntensity # InitialEnvMapIntensity
  /\ debugObject.toneMappingExposure # InitialExposure
  /\ calls[1] = "tick"

\* C4: every frame rendered once the model has been delivered sees it
\* attached to the scene and scaled by 0.5 on the three axes and, when it
\* carried clips, a mixer bound to it that plays every clip and that this
\* frame advances by the delta the clock measures.
FrameSeesModel ==
  [][(FrameRendered /\ gltf # <<>>) =>
       /\ fox # <<>>
       /\ InScene(scene, "fox")
       /\ fox[1].scale = <<Half, Half, Half>>
       /\ fox' = fox
       /\ scene' = scene
       /\ gltf[1].animations # {} =>
            /\ mixer # <<>>
            /\ mixer[1].root = "fox"
            /\ mixer[1].playing = gltf[1].animations
            /\ mixer' = <<[mixer[1] EXCEPT !.time = @ + (now - clock.oldTime)]>>]_vars

\* a frame advanced the mixer of a model with clips by a positive delta
MixerAdvanced ==
  /\ gltf # <<>>
  /\ gltf[1].animations # {}
  /\ mixer # <<>>
  /\ mixer[1].time > 0
  /\ calls[1] = "tick"

\* what one iteration of tick does after the optional mixer update
TickCallsComplete ==
  calls[1] = "tick" =>
    /\ Count(calls, "controls.update") = 1
    /\ Count(calls, "renderer.render") = 1
    /\ Count(calls, "requestAnimationFrame") = 1
    /\ (mixer = <<>>) = (Count(calls, "mixer.update") = 0)

\* C5: once started a frame callback is always pending, every iteration
\* updates the controls, renders and requests the next one whether or not
\* there is a mixer, and frames are rendered infinitely often.
FrameLoopLive ==
  /\ [](started => rafPending >= 1)
  /\ [](TickCallsComplete)
  /\ \A k \in 0..(FrameWrap - 1) : []<>(renderer.frame # k)

\* frames rendered with no mixer, the load having failed
RenderedWithoutModel ==
  /\ load = "failed"
  /\ mixer = <<>>
  /\ calls[1] = "tick"
  /\ clock.oldTime = MaxNow

\* C6: a second updateAllMaterials pass with the same environment map and
\* intensity leaves the scene's nodes as the first pass left them; with no
\* model in the scene a pass changes nothing.
UpdaterIdempotent ==
  LET once == updateAllMaterials(scene, fox, debugObject.envMapIntensity)
      twice == updateAllMaterials(scene, once, debugObject.envMapIntensity)
  IN /\ twice = once
     /\ fox = <<>> => once = fox

\* a pass has run on a scene that mixes a standard mesh, now carrying the
\* panel's new intensity, with a node the pass must leave alone
PassRanOnMixedScene ==
  /\ calls[1] = "envMapIntensity.onChange"
  /\ fox # <<>>
  /\ debugObject.envMapIntensity = 10 * One
  /\ \E i \in StandardMeshes(fox[1]) : fox[1].children[i].envMapIntensity = 10 * One
  /\ \E i \in DOMAIN fox[1].children :
       /\ fox[1].children[i].material = "MeshBasicMaterial"
       /\ fox[1].children[i].envMap = "null"
       /\ ~fox[1].children[i].castShadow

\* C7: a loaded model whose local origin is at its vertical centre has its
\* lowest point at y = 0 once placed.
HeightNormalized ==
  (gltf # <<>> /\ fox # <<>>) =>
    LET local == setFromObject(gltf[1].scene) IN
    (local.min_y + local.max_y = 0) => setFromObject(fox[1]).min_y = 0

\* C8: the renderer's tone mapping and exposure are the panel's values,
\* filmic and 3.0 until a control is changed.
RendererMatchesPanel ==
  /\ renderer.toneMapping = debugObject.toneMapping
  /\ renderer.toneMappingExposure = debugObject.toneMappingExposure

\* C9: there is a mixer only if a model with at least one clip has loaded.
MixerOnlyWithClips ==
  mixer # <<>> => (gltf # <<>> /\ gltf[1].animations # {})

\* C10: at most one frame callback is ever pending, exactly one once the
\* loop has started; an iteration of tick renders once and requests one
\* frame, and no other handler renders or requests a frame.
SingleFrameLoop ==
  /\ rafPending <= 1
  /\ started => rafPending = 1
  /\ calls[1] = "tick" =>
       /\ Count(calls, "renderer.render") = 1
       /\ Count(calls, "requestAnimationFrame") = 1
  /\ calls[1] # "tick" =>
       /\ Count(calls, "renderer.render") = 0
       /\ Count(calls, "requestAnimationFrame") = 0
       /\ Count(calls, "tick") = 0

\* the loop still has one pending callback after the other handlers ran
OneCallbackPending ==
  /\ calls[1] = "resize"
  /\ load = "loaded"
  /\ debugObject.toneMapping # ACESFilmicToneMapping
  /\ rafPending = 1
  /\ renderer.frame = 0

====
